---- MODULE Spec2Model ----
(***************************************************************************)
(* FAQ helpdesk service: the FAISS vector index and its metadata record    *)
(* map (app/services/embedding.py) and the HTTP handlers that drive them   *)
(* (app/api/endpoints.py).                                                 *)
(*                                                                         *)
(* The vector index is a sequence of vectors (position p is element p+1).  *)
(* metadata["faqs"] is a Python dict keyed by the decimal string of the    *)
(* position; it is modelled as the sequence of its items in insertion      *)
(* order, which is the order every loop of the source iterates it in.      *)
(* Similarities are in hundredths (0.8 is 80).                             *)
(***************************************************************************)
EXTENDS Integers, Sequences, FiniteSets, TLC

\* ------------------------------------------------------------------ bounds
\* Domain ids are 1..MaxId.
MaxId == 3
\* A handler that would grow the index is taken only below this cardinality.
MaxN == 3
\* top_k ranges over 1..MaxTopK.
MaxTopK == 2
\* The files a run loads were saved after at most this many calls.
MaxHistory == 3
\* GET /faiss/list: skip ranges over 0..MaxSkip, limit over 0..MaxLimit.
MaxSkip == 3
MaxLimit == 2
\* At most MaxFaults writes to the data directory fail in a run, and while
\* one can still fail the index grows only below the cardinality MaxNFaulty.
MaxFaults == 1
MaxNFaulty == 1
\* A bulk import carries at most MaxBulk records.
MaxBulk == 2
\* POST /faiss/backup is served while the metadata lists fewer backups.
MaxBackups == 1

\* ------------------------------------------------------------ input domains
Ids == 1..MaxId
NoneVal == "None"
\* The question and answer texts a request body can carry (answer is optional).
FAQContents == {[question |-> "q1", answer |-> "a1"],
                [question |-> "q2", answer |-> NoneVal]}
\* The value of datetime.now().isoformat(): one abstract instant.
Now == "now"
\* The worker threads of the thread pool that serve two requests at once.
Threads == {"t1", "t2"}
\* The width of the vectors the embedding model gives.
EMBEDDING_DIM == 768

VARIABLES
    index,      \* self.index: the stored vectors, position p at p+1
    metadata,   \* self.metadata: [faqs, last_updated, consistency_check, backups]
    disk,       \* INDEX_PATH and METADATA_PATH: [index, metadata]
    faulty,     \* how many writes to the data directory can still fail
    dimension,  \* self.index.d
    lastOp,     \* the last handler call and its response
    pc,         \* where the background task perform_check is
    result,     \* the result dict of check_and_reindex
    postgres_faqs,  \* perform_check: the records the Laravel API returned
    cursor,     \* perform_check: the next record of the "missing" loop
    to_delete,  \* perform_check: the orphaned ids still to delete
    threads,    \* the worker threads inside add_or_update_faq, by thread
    bulk        \* the background task process_bulk_indexing

indexVars == <<index, metadata, disk, faulty>>
checkVars == <<pc, result, postgres_faqs, cursor, to_delete>>
taskVars == <<dimension, threads, bulk>>
vars == <<index, metadata, disk, faulty, dimension, lastOp, pc, result,
          postgres_faqs, cursor, to_delete, threads, bulk>>

\* ------------------------------------------------- str(idx) and int(idx)
Digits == <<"0", "1", "2", "3", "4", "5", "6", "7", "8", "9">>
\* str(n) for the positions of the model and the label -1.
PyStr(n) == IF n < 0 THEN "-" \o Digits[1 - n] ELSE Digits[n + 1]
\* int(s) for a key written by PyStr.
PyInt(s) == CHOOSE n \in 0..(Len(Digits) - 1) : Digits[n + 1] = s

\* ---------------------------------------------------------- Python dict
\* A dict is the sequence of its <<key, value>> items in insertion order.
DictKeys(d) == {d[i][1] : i \in 1..Len(d)}
DictHas(d, k) == k \in DictKeys(d)
\* d[k], for a key of d.
DictGet(d, k) == d[CHOOSE i \in 1..Len(d) : d[i][1] = k][2]
\* d[k] = v: an existing key keeps its place, a new key goes last.
DictSet(d, k, v) ==
    IF DictHas(d, k)
    THEN [i \in 1..Len(d) |-> IF d[i][1] = k THEN <<k, v>> ELSE d[i]]
    ELSE Append(d, <<k, v>>)

\* ------------------------------------------------------------- embedding
\* generate_embedding: the model is uncased, so texts that differ only in
\* case have one embedding. Vectors are named by small integers. The
\* questions of FAQContents are "q1" and "q2"; a query is one of QueryTexts.
QueryTexts == {"Q1", "q3", "q4"}
generate_embedding(text) ==
    CASE text \in {"q1", "Q1"} -> 1
      [] text = "q2" -> 2
      [] text = "q3" -> 3
      [] text = "q4" -> 4

\* ----------------------------------------------------------------- faiss
\* The inner product of two unit vectors, in hundredths.
Similarity(v, w) ==
    IF v = w THEN 100
    ELSE CASE {v, w} = {1, 2} -> 70
           [] {v, w} = {1, 3} -> 60
           [] {v, w} = {2, 3} -> 80
           [] {v, w} = {1, 4} -> 50
           [] {v, w} = {2, 4} -> 90
           [] {v, w} = {3, 4} -> 70
\* The label faiss gives a result slot that has no vector.
NoLabel == -1
\* index.search(v, k): the labels of the k slots. The first min(k, ntotal)
\* slots hold the positions of the nearest vectors, by descending inner
\* product; equal scores come in an order the library does not fix. The
\* other slots hold NoLabel.
FaissSearch(ix, v, k) ==
    LET m == IF k < Len(ix) THEN k ELSE Len(ix)
        score(l) == Similarity(v, ix[l + 1])
    IN  {labels \in [1..k -> (0..(Len(ix) - 1)) \union {NoLabel}] :
           /\ \A i \in 1..k : (labels[i] = NoLabel) <=> (i > m)
           /\ \A i, j \in 1..m : i < j =>
                 /\ labels[i] # labels[j]
                 /\ score(labels[i]) >= score(labels[j])
           /\ \A l \in 0..(Len(ix) - 1) :
                 (\A i \in 1..m : labels[i] # l) =>
                    \A i \in 1..m : score(labels[i]) >= score(l)}
\* index.ntotal
ntotal(ix) == Len(ix)
\* index.add(v): appends at position ntotal.
IndexAdd(ix, v) == Append(ix, v)
\* index.remove_ids([p]) of a flat index: drops the vector at position p and
\* shifts every later vector down by one; an id that is not stored removes
\* nothing.
remove_ids(ix, p) ==
    IF p \in 0..(Len(ix) - 1)
    THEN [i \in 1..(Len(ix) - 1) |-> IF i <= p THEN ix[i] ELSE ix[i + 1]]
    ELSE ix

\* ------------------------------------------------------------ save_index
SaveOutcomes == IF faulty > 0 THEN {"ok", "index_failed", "metadata_failed"} ELSE {"ok"}
\* save_index sets last_updated first, then writes the index file, then the
\* metadata file; an exception is logged and swallowed.
Stamp(md) == [md EXCEPT !.last_updated = Now]
\* Mutant of DiskAfterSave: a save rewrites the metadata file only.
DiskAfterSave_MetadataOnly(ix, md, outcome) ==
    [disk EXCEPT !.metadata = Stamp(md)]

DiskAfterSave(ix, md, outcome) ==
    CASE outcome = "ok" -> [index |-> ix, metadata |-> Stamp(md)]
      [] outcome = "index_failed" -> disk
      [] outcome = "metadata_failed" -> [disk EXCEPT !.index = ix]
\* The failures the data directory still has in store after a save.
FaultsAfterSave(outcome) == IF outcome = "ok" THEN faulty ELSE faulty - 1

\* -------------------------------------------------------- EmbeddingModel
\* An optional key of the metadata dict is <<>> when the dict has no such
\* key and <<value>> when it has.
Absent == <<>>
NoIdx == -1
\* The loop "for idx, metadata in faqs.items(): if metadata["id"] == faq_id":
\* the position of the first item, in iteration order, that holds faq_id;
\* NoIdx stands for None.
FindIdx(faqs, faq_id) ==
    LET hits == {i \in 1..Len(faqs) : faqs[i][2].id = faq_id}
    IN  IF hits = {} THEN NoIdx
        ELSE PyInt(faqs[CHOOSE i \in hits : \A j \in hits : i <= j][1])

\* Mutant of AddIndex: the old vector of an indexed id is not removed.
AddIndex_KeepOld(ix, faqs, faq_id, question) ==
    IndexAdd(ix, generate_embedding(question))

\* The index after add_or_update_faq.
AddIndex(ix, faqs, faq_id, question) ==
    LET existing_idx == FindIdx(faqs, faq_id)
        ix1 == IF existing_idx # NoIdx THEN remove_ids(ix, existing_idx) ELSE ix
    IN  IndexAdd(ix1, generate_embedding(question))

\* The value add_or_update_faq returns: ntotal after the removal.
AddRet(ix, faqs, faq_id) ==
    LET existing_idx == FindIdx(faqs, faq_id)
    IN  ntotal(IF existing_idx # NoIdx THEN remove_ids(ix, existing_idx) ELSE ix)

\* metadata["faqs"] after add_or_update_faq.
AddFaqs(ix, faqs, faq_id, question, answer) ==
    DictSet(faqs, PyStr(AddRet(ix, faqs, faq_id)),
            [id |-> faq_id, question |-> question, answer |-> answer])

add_or_update_faq(faq_id, question, answer) ==
    \E outcome \in SaveOutcomes :
      LET ix == AddIndex(index, metadata.faqs, faq_id, question)
          md == [metadata EXCEPT
                   !.faqs = AddFaqs(index, metadata.faqs, faq_id, question, answer)]
      IN  /\ index' = ix
          /\ metadata' = Stamp(md)
          /\ disk' = DiskAfterSave(ix, md, outcome)
          /\ faulty' = FaultsAfterSave(outcome)

\* load_index with both files present: the index and the metadata as the
\* files hold them. (json.dump and json.load keep the string keys, the
\* integer ids, None and the order of the items.)
load_index(files) == [index |-> files.index, metadata |-> files.metadata]

\* Mutant of Renumber: the positions above the removed one are not lowered.
RECURSIVE Renumber_NoShift(_, _)
Renumber_NoShift(faqs, idx_to_remove) ==
    IF faqs = <<>> THEN <<>>
    ELSE LET rest == Renumber_NoShift(Tail(faqs), idx_to_remove)
         IN  IF PyInt(Head(faqs)[1]) # idx_to_remove
             THEN <<Head(faqs)>> \o rest
             ELSE rest

\* The rebuilt dict of delete_faq: every item but the removed position, in
\* iteration order, positions above the removed one lowered by one.
RECURSIVE Renumber(_, _)
Renumber(faqs, idx_to_remove) ==
    IF faqs = <<>> THEN <<>>
    ELSE LET idx == PyInt(Head(faqs)[1])
             rest == Renumber(Tail(faqs), idx_to_remove)
         IN  IF idx # idx_to_remove
             THEN LET new_idx == IF idx > idx_to_remove THEN idx - 1 ELSE idx
                  IN  <<<<PyStr(new_idx), Head(faqs)[2]>>>> \o rest
             ELSE rest

EmptyMetadata(last_updated) ==
    [faqs |-> <<>>, last_updated |-> last_updated,
     consistency_check |-> Absent, backups |-> Absent]

\* Mutant of delete_faq: an id that is not found is reported as deleted.
delete_faq_AlwaysTrue(faq_id, found) ==
    LET idx_to_remove == FindIdx(metadata.faqs, faq_id)
    IN  /\ found = TRUE
        /\ index' = remove_ids(index, idx_to_remove)
        /\ metadata' = Stamp([EmptyMetadata(NoneVal) EXCEPT
                                !.faqs = Renumber(metadata.faqs, idx_to_remove)])
        /\ disk' = [index |-> index', metadata |-> metadata']
        /\ faulty' = faulty

\* delete_faq returns False and changes nothing for an id it does not find.
delete_faq(faq_id, found) ==
    LET idx_to_remove == FindIdx(metadata.faqs, faq_id)
    IN  /\ found = (idx_to_remove # NoIdx)
        /\ IF idx_to_remove # NoIdx
           THEN \E outcome \in SaveOutcomes :
                  LET ix == remove_ids(index, idx_to_remove)
                      md == [EmptyMetadata(NoneVal) EXCEPT
                               !.faqs = Renumber(metadata.faqs, idx_to_remove)]
                  IN  /\ index' = ix
                      /\ metadata' = Stamp(md)
                      /\ disk' = DiskAfterSave(ix, md, outcome)
                      /\ faulty' = FaultsAfterSave(outcome)
           ELSE UNCHANGED <<index, metadata, disk, faulty>>

\* Mutant of Joined: the slots without a vector are joined too.
Joined_All(labels) == labels

\* search: the slots it joins against the metadata, "if idx != -1".
Joined(labels) == SelectSeq(labels, LAMBDA idx : idx # NoLabel)

\* search raises KeyError when a joined label is no key of metadata["faqs"].
SearchRaises(faqs, labels) ==
    \E i \in 1..Len(Joined(labels)) : ~DictHas(faqs, PyStr(Joined(labels)[i]))

\* The list search returns for the labels faiss gave.
search(ix, faqs, v, labels) ==
    LET joined == Joined(labels)
    IN  [i \in 1..Len(joined) |->
           LET rec == DictGet(faqs, PyStr(joined[i]))
           IN  [id |-> rec.id, question |-> rec.question, answer |-> rec.answer,
                similarity |-> Similarity(v, ix[joined[i] + 1])]]

\* --------------------------------------------------------------- handlers
\* lastOp records a call as its client sees it (op, arguments, status and
\* body of the response) and, for the properties, what the call met: found,
\* the position its lookup found (NoIdx for none), n, the cardinality before
\* the call, and repeat, whether the call before it was a CreateOrUpdate
\* with the same arguments.
IsAddCall(call) == call.op \in {"create_faq", "update_faq"} /\ call.status # 400
AddCall(op, status, id, faq) ==
    [op |-> op, id |-> id, question |-> faq.question, answer |-> faq.answer,
     status |-> status, idx |-> AddRet(index, metadata.faqs, id),
     found |-> FindIdx(metadata.faqs, id), n |-> ntotal(index),
     repeat |-> /\ IsAddCall(lastOp)
                /\ lastOp.id = id
                /\ lastOp.question = faq.question
                /\ lastOp.answer = faq.answer]

\* The bound of the model on the requests that add a vector.
CanGrow(id) ==
    FindIdx(metadata.faqs, id) = NoIdx =>
        ntotal(index) < (IF faulty > 0 THEN MaxNFaulty ELSE MaxN)

\* POST /faqs
create_faq ==
    \E id \in Ids, faq \in FAQContents :
        /\ CanGrow(id)
        /\ add_or_update_faq(id, faq.question, faq.answer)
        /\ lastOp' = AddCall("create_faq", 201, id, faq)
        /\ UNCHANGED <<checkVars, taskVars>>

\* PUT /faqs/{faq_id}
update_faq ==
    \E faq_id \in Ids, id \in Ids :
        IF id # faq_id
        THEN /\ lastOp' = [op |-> "update_faq", status |-> 400]
             /\ UNCHANGED <<indexVars, checkVars, taskVars>>
        ELSE \E faq \in FAQContents :
             /\ CanGrow(id)
             /\ add_or_update_faq(id, faq.question, faq.answer)
             /\ lastOp' = AddCall("update_faq", 200, id, faq)
             /\ UNCHANGED <<checkVars, taskVars>>

\* DELETE /faqs/{faq_id}: 404 when delete_faq returns False.
delete_faq_endpoint ==
    \E faq_id \in Ids, success \in BOOLEAN :
        /\ delete_faq(faq_id, success)
        /\ lastOp' = [op |-> "delete_faq", id |-> faq_id, success |-> success,
                      status |-> IF success THEN 200 ELSE 404,
                      found |-> FindIdx(metadata.faqs, faq_id), n |-> ntotal(index)]
        /\ UNCHANGED <<checkVars, taskVars>>

HIGH_CONFIDENCE_THRESHOLD == 80
Thresholds == {60, 90}

\* Mutant of QueryResponse: the best match is answered from the threshold on.
QueryResponse_AtLeast(results, threshold) ==
    LET filtered_results == SelectSeq(results, LAMBDA r : r.similarity >= threshold)
    IN  IF filtered_results # <<>>
           /\ filtered_results[1].similarity >= HIGH_CONFIDENCE_THRESHOLD
        THEN [message |-> "Best match found",
              best_match |-> [question |-> filtered_results[1].question,
                              answer |-> filtered_results[1].answer,
                              similarity |-> filtered_results[1].similarity]]
        ELSE [message |-> "No high-confidence match found. Please select from the alternatives.",
              alternatives |-> [i \in 1..Len(filtered_results) |->
                                  [id |-> filtered_results[i].id,
                                   question |-> filtered_results[i].question,
                                   similarity |-> filtered_results[i].similarity]]]

\* The body POST /query returns for the list search gave.
QueryResponse(results, threshold) ==
    LET filtered_results == SelectSeq(results, LAMBDA r : r.similarity >= threshold)
    IN  IF filtered_results # <<>>
           /\ filtered_results[1].similarity > HIGH_CONFIDENCE_THRESHOLD
        THEN [message |-> "Best match found",
              best_match |-> [question |-> filtered_results[1].question,
                              answer |-> filtered_results[1].answer,
                              similarity |-> filtered_results[1].similarity]]
        ELSE [message |-> "No high-confidence match found. Please select from the alternatives.",
              alternatives |-> [i \in 1..Len(filtered_results) |->
                                  [id |-> filtered_results[i].id,
                                   question |-> filtered_results[i].question,
                                   similarity |-> filtered_results[i].similarity]]]

\* POST /query. An exception of search is a 500 response. lastOp keeps the
\* labels faiss gave and the list search returned.
query ==
    \E text \in QueryTexts, top_k \in 1..MaxTopK :
      \E labels \in FaissSearch(index, generate_embedding(text), top_k) :
        /\ IF SearchRaises(metadata.faqs, labels)
           THEN \E threshold \in Thresholds :
                  lastOp' = [op |-> "query", query |-> text, top_k |-> top_k,
                             threshold |-> threshold, n |-> ntotal(index),
                             labels |-> labels, status |-> 500]
           ELSE LET results == search(index, metadata.faqs,
                                      generate_embedding(text), labels)
                IN  \E threshold \in Thresholds :
                      lastOp' = [op |-> "query", query |-> text, top_k |-> top_k,
                                 threshold |-> threshold, n |-> ntotal(index),
                                 labels |-> labels, status |-> 200,
                                 results |-> results,
                                 body |-> QueryResponse(results, threshold)]
        /\ UNCHANGED <<indexVars, checkVars, taskVars>>

\* ------------------------------------------------------ consistency check
\* The records GET all-faqs can return: FAQs with distinct ids, by id.
RECURSIVE RecordsOf(_, _)
RecordsOf(ids, faq) ==
    IF ids = {} THEN <<>>
    ELSE LET id == CHOOSE i \in ids : \A j \in ids : i <= j
         IN  <<[id |-> id, question |-> faq.question, answer |-> faq.answer]>>
               \o RecordsOf(ids \ {id}, faq)
AllFaqsResponses == {RecordsOf(ids, faq) : ids \in SUBSET Ids, faq \in FAQContents}
SeqIds(records) == {records[i].id : i \in 1..Len(records)}

\* POST /consistency-check: builds the result dict, queues perform_check
\* and answers "processing". One check runs at a time.
check_and_reindex ==
    /\ pc \in {"idle", "done"}
    /\ pc' = "fetch"
    /\ result' = [status |-> "checking", faqs_total |-> 0,
                  missing_in_faiss |-> {}, orphaned_in_faiss |-> {}]
    /\ postgres_faqs' = <<>>
    /\ cursor' = 1
    /\ to_delete' = {}
    /\ lastOp' = [op |-> "consistency-check", status |-> 200,
                  body |-> [status |-> "processing"]]
    /\ UNCHANGED <<indexVars, taskVars>>

\* perform_check, the call of the Laravel API. httpx.get raising (no
\* connection, timeout) is caught by the except clause; a response that is
\* not 200 is logged and the task returns; a 200 response fills the result.
FetchOutcomes == {"exception", "not_200", "ok"}

\* Mutant of perform_check_fetch: a fetch that raises empties the index.
perform_check_fetch_Empties ==
    /\ pc = "fetch"
    /\ result' = [result EXCEPT !.status = "error"] @@ [error |-> "str(e)"]
    /\ pc' = "done"
    /\ index' = <<>>
    /\ metadata' = [metadata EXCEPT !.faqs = <<>>]
    /\ UNCHANGED <<disk, faulty, postgres_faqs, cursor, to_delete, lastOp, taskVars>>

perform_check_fetch ==
    /\ pc = "fetch"
    /\ \E outcome \in FetchOutcomes :
         CASE outcome = "exception" ->
                /\ result' = [result EXCEPT !.status = "error"]
                                @@ [error |-> "str(e)"]
                /\ pc' = "done"
                /\ UNCHANGED <<postgres_faqs, cursor, to_delete>>
           [] outcome = "not_200" ->
                /\ pc' = "done"
                /\ UNCHANGED <<result, postgres_faqs, cursor, to_delete>>
           [] outcome = "ok" ->
                \E records \in AllFaqsResponses :
                  LET postgres_faq_ids == SeqIds(records)
                      faiss_faq_ids == {metadata.faqs[i][2].id :
                                          i \in 1..Len(metadata.faqs)}
                      missing_in_faiss == postgres_faq_ids \ faiss_faq_ids
                      orphaned_in_faiss == faiss_faq_ids \ postgres_faq_ids
                  IN  /\ postgres_faqs' = records
                      /\ result' = [result EXCEPT
                                      !.faqs_total = Len(records),
                                      !.missing_in_faiss = missing_in_faiss,
                                      !.orphaned_in_faiss = orphaned_in_faiss]
                      /\ cursor' = 1
                      /\ to_delete' = orphaned_in_faiss
                      /\ pc' = "add"
    /\ UNCHANGED <<indexVars, lastOp, taskVars>>

\* perform_check, one turn of "for faq in postgres_faqs": a missing FAQ is
\* added; after the last record the task goes on to the orphans.
perform_check_add ==
    /\ pc = "add"
    /\ IF cursor > Len(postgres_faqs)
       THEN /\ pc' = "delete"
            /\ UNCHANGED <<indexVars, cursor>>
       ELSE /\ IF postgres_faqs[cursor].id \in result.missing_in_faiss
               THEN add_or_update_faq(postgres_faqs[cursor].id,
                                      postgres_faqs[cursor].question,
                                      postgres_faqs[cursor].answer)
               ELSE UNCHANGED indexVars
            /\ cursor' = cursor + 1
            /\ pc' = pc
    /\ UNCHANGED <<lastOp, result, postgres_faqs, to_delete, taskVars>>

\* Mutant of FinalStatus: orphans alone do not make a check "reindexed".
FinalStatus_MissingOnly(missing_in_faiss, orphaned_in_faiss) ==
    IF missing_in_faiss # {} THEN "reindexed" ELSE "consistent"

\* The final status of a check that got its records.
FinalStatus(missing_in_faiss, orphaned_in_faiss) ==
    IF missing_in_faiss # {} \/ orphaned_in_faiss # {}
    THEN "reindexed" ELSE "consistent"

\* perform_check, one turn of "for faq_id in orphaned_in_faiss" (a set, so
\* in no fixed order); after the last orphan the final status is set.
perform_check_delete ==
    /\ pc = "delete"
    /\ IF to_delete = {}
       THEN /\ result' = [result EXCEPT !.status =
                            FinalStatus(result.missing_in_faiss,
                                        result.orphaned_in_faiss)]
            /\ pc' = "done"
            /\ UNCHANGED <<indexVars, to_delete>>
       ELSE \E faq_id \in to_delete, found \in BOOLEAN :
            /\ delete_faq(faq_id, found)
            /\ to_delete' = to_delete \ {faq_id}
            /\ UNCHANGED <<pc, result>>
    /\ UNCHANGED <<lastOp, postgres_faqs, cursor, taskVars>>

\* save_consistency_result, which no handler and no task calls.
save_consistency_result(md, res) ==
    [md EXCEPT !.consistency_check = <<[timestamp |-> Now, result |-> res]>>]

\* The body of GET /consistency-status for the metadata md.
ConsistencyStatus(md) ==
    IF md.consistency_check # Absent
    THEN md.consistency_check[1]
    ELSE [status |-> "never_run"]

\* GET /consistency-status
get_consistency_status ==
    /\ lastOp' = [op |-> "consistency-status", status |-> 200,
                  body |-> ConsistencyStatus(metadata)]
    /\ UNCHANGED <<indexVars, checkVars, taskVars>>

\* ------------------------------------------------------- the faiss admin
\* get_faiss_stats: faq_count_by_id, a dict from id to the number of
\* records that hold it, keys in the order the ids are first met.
RECURSIVE CountById(_)
CountById(faqs) ==
    IF faqs = <<>> THEN <<>>
    ELSE LET counts == CountById(SubSeq(faqs, 1, Len(faqs) - 1))
             faq_id == faqs[Len(faqs)][2].id
         IN  IF DictHas(counts, faq_id)
             THEN DictSet(counts, faq_id, DictGet(counts, faq_id) + 1)
             ELSE DictSet(counts, faq_id, 1)

\* Mutant of Duplicates: every id counts as a duplicate.
Duplicates_All(faq_count_by_id) ==
    SelectSeq(faq_count_by_id, LAMBDA item : item[2] >= 1)

\* "{faq_id: count for faq_id, count in faq_count_by_id.items() if count > 1}"
Duplicates(faq_count_by_id) ==
    SelectSeq(faq_count_by_id, LAMBDA item : item[2] > 1)

\* The body of GET /faiss/stats (without index_type and memory_usage_mb).
StatsBody(ix, md, d) ==
    LET faq_count_by_id == CountById(md.faqs)
        duplicates == Duplicates(faq_count_by_id)
    IN  [total_vectors |-> ntotal(ix), dimension |-> d,
         last_updated |-> md.last_updated,
         unique_faq_ids |-> Len(faq_count_by_id),
         has_duplicates |-> Len(duplicates) > 0,
         duplicates |-> duplicates]

\* GET /faiss/stats
get_faiss_stats ==
    /\ lastOp' = [op |-> "stats", status |-> 200,
                  body |-> StatsBody(index, metadata, dimension)]
    /\ UNCHANGED <<indexVars, checkVars, taskVars>>

\* sorted(S) for a set of integers.
RECURSIVE Sorted(_)
Sorted(S) ==
    IF S = {} THEN <<>>
    ELSE LET least == CHOOSE x \in S : \A y \in S : x <= y
         IN  <<least>> \o Sorted(S \ {least})

\* Mutant of PySlice: the slice ends at limit, not at skip + limit.
PySlice_ToLimit(seq, from, to) ==
    SubSeq(seq, from + 1, IF to - from < Len(seq) THEN to - from ELSE Len(seq))

\* seq[from:to] for indices that are not negative.
PySlice(seq, from, to) ==
    SubSeq(seq, from + 1, IF to < Len(seq) THEN to ELSE Len(seq))

\* The body of GET /faiss/list.
ListItems(faqs, skip, limit) ==
    LET sorted_keys == Sorted({PyInt(k) : k \in DictKeys(faqs)})
        paginated_keys == PySlice(sorted_keys, skip, skip + limit)
    IN  [i \in 1..Len(paginated_keys) |->
           LET idx == paginated_keys[i]
               record == DictGet(faqs, PyStr(idx))
           IN  [index |-> idx, id |-> record.id, question |-> record.question,
                answer |-> record.answer]]

\* GET /faiss/list
list_faiss_items ==
    /\ \E skip \in 0..MaxSkip, limit \in 0..MaxLimit :
         lastOp' = [op |-> "list", skip |-> skip, limit |-> limit,
                    status |-> 200,
                    body |-> ListItems(metadata.faqs, skip, limit)]
    /\ UNCHANGED <<indexVars, checkVars, taskVars>>

\* Mutant of reset_faiss_index: the metadata dict is kept.
reset_faiss_index_KeepsMetadata ==
    /\ index' = <<>>
    /\ dimension' = dimension
    /\ metadata' = Stamp(metadata)
    /\ disk' = [index |-> index', metadata |-> metadata']
    /\ lastOp' = [op |-> "reset", status |-> 204, n |-> ntotal(index)]
    /\ UNCHANGED <<faulty, checkVars, threads, bulk>>

\* DELETE /faiss/reset: a new IndexFlatIP of the dimension of the old one, a
\* new metadata dict, save_index. save_index swallows its exceptions, so
\* the except clause with the 500 response is never entered by a failed
\* write. lastOp.n is the cardinality before the call.
reset_faiss_index ==
    /\ \E outcome \in SaveOutcomes :
         LET new_index == <<>>
             md == EmptyMetadata(Now)
         IN  /\ index' = new_index
             /\ dimension' = dimension
             /\ metadata' = Stamp(md)
             /\ disk' = DiskAfterSave(new_index, md, outcome)
             /\ faulty' = FaultsAfterSave(outcome)
    /\ lastOp' = [op |-> "reset", status |-> 204, n |-> ntotal(index)]
    /\ UNCHANGED <<checkVars, threads, bulk>>

\* The entry backup_faiss_data records for a backup made at the one
\* abstract instant.
BackupTimestamp == "timestamp"
BackupEntry ==
    [timestamp |-> BackupTimestamp,
     index_file |-> "backups/faqs_index_timestamp.faiss",
     metadata_file |-> "backups/faqs_metadata_timestamp.json"]
\* model.metadata["backups"], the empty list when the key is missing.
BackupsOf(md) == IF md.backups = Absent THEN <<>> ELSE md.backups[1]

\* POST /faiss/backup: copies the index and the metadata into the backups
\* directory (files the model does not follow), appends the entry to
\* metadata["backups"] and saves.
backup_faiss_data ==
    /\ Len(BackupsOf(metadata)) < MaxBackups
    /\ \E outcome \in SaveOutcomes :
         LET md == [metadata EXCEPT
                      !.backups = <<Append(BackupsOf(metadata), BackupEntry)>>]
         IN  /\ metadata' = Stamp(md)
             /\ disk' = DiskAfterSave(index, md, outcome)
             /\ faulty' = FaultsAfterSave(outcome)
    /\ lastOp' = [op |-> "backup", status |-> 200,
                  body |-> [message |-> "Backup created successfully",
                            timestamp |-> BackupTimestamp]]
    /\ UNCHANGED <<index, checkVars, taskVars>>

\* ------------------------------------------------------------ bulk import
\* The bodies POST /bulk_index can carry: lists of FAQItems, ids repeated or
\* not.
BulkItems == [id : Ids, faq : FAQContents]
BulkLists == UNION {[1..len -> BulkItems] : len \in 0..MaxBulk}

\* POST /bulk_index: queues process_bulk_indexing(items) and answers
\* "processing". bulk.k is the record the loop is at and bulk.start the
\* index and the record map the task started from. One import per run.
bulk_index ==
    /\ bulk.pc = "idle"
    /\ \E faqs \in BulkLists :
         /\ bulk' = [pc |-> "run", items |-> faqs, k |-> 1,
                     start |-> [index |-> index, faqs |-> metadata.faqs]]
         /\ lastOp' = [op |-> "bulk_index", status |-> 200, n |-> Len(faqs),
                       body |-> [status |-> "processing"]]
    /\ UNCHANGED <<indexVars, checkVars, dimension, threads>>

\* Mutant of BulkItem: the loop walks the list from its end.
BulkItem_Reversed(items, k) == items[Len(items) + 1 - k]

\* "for faq in items": the k-th record of the loop.
BulkItem(items, k) == items[k]

\* process_bulk_indexing, one turn of the loop: add_or_update_faq for the
\* next record, or an exception of it (generate_embedding raising) that
\* nothing catches and that ends the task; after the last record the task
\* logs the completion.
process_bulk_indexing ==
    /\ bulk.pc = "run"
    /\ IF bulk.k > Len(bulk.items)
       THEN /\ bulk' = [bulk EXCEPT !.pc = "done"]
            /\ UNCHANGED indexVars
       ELSE \E raises \in BOOLEAN :
              IF raises
              THEN /\ bulk' = [bulk EXCEPT !.pc = "failed"]
                   /\ UNCHANGED indexVars
              ELSE LET faq == BulkItem(bulk.items, bulk.k)
                   IN  /\ add_or_update_faq(faq.id, faq.faq.question,
                                             faq.faq.answer)
                       /\ bulk' = [bulk EXCEPT !.k = @ + 1]
    /\ UNCHANGED <<lastOp, checkVars, dimension, threads>>

\* ------------------------------------------- create_faq, step by step
\* POST /faqs served by a worker thread: the statements of
\* add_or_update_faq one at a time. The handlers are sync functions, so two
\* requests run in two threads of the pool; nothing in the source locks the
\* index or the metadata.
ThreadFaq(t) ==
    [id |-> threads[t].faq_id, question |-> threads[t].question,
     answer |-> threads[t].answer]
ThreadStep(t, from, to) ==
    /\ threads[t].pc = from
    /\ threads' = [threads EXCEPT ![t].pc = to]

\* The request arrives; add_or_update_faq is entered.
thread_call(t) ==
    /\ threads[t].pc = "idle"
    /\ \E id \in Ids, faq \in FAQContents :
         threads' = [threads EXCEPT ![t] =
                       [pc |-> "lookup", faq_id |-> id,
                        question |-> faq.question, answer |-> faq.answer,
                        existing_idx |-> NoIdx, idx |-> NoIdx]]
    /\ UNCHANGED <<indexVars, lastOp, checkVars, dimension, bulk>>

\* The loop that looks the id up.
thread_lookup(t) ==
    /\ threads[t].pc = "lookup"
    /\ threads' = [threads EXCEPT
                     ![t].existing_idx = FindIdx(metadata.faqs, threads[t].faq_id),
                     ![t].pc = "remove"]
    /\ UNCHANGED <<indexVars, lastOp, checkVars, dimension, bulk>>

\* "if existing_idx is not None: self.index.remove_ids(...)"
thread_remove(t) ==
    /\ ThreadStep(t, "remove", "ntotal")
    /\ index' = IF threads[t].existing_idx # NoIdx
                THEN remove_ids(index, threads[t].existing_idx)
                ELSE index
    /\ UNCHANGED <<metadata, disk, faulty, lastOp, checkVars, dimension, bulk>>

\* "idx = self.index.ntotal"
thread_ntotal(t) ==
    /\ threads[t].pc = "ntotal"
    /\ threads' = [threads EXCEPT ![t].idx = ntotal(index), ![t].pc = "add"]
    /\ UNCHANGED <<indexVars, lastOp, checkVars, dimension, bulk>>

\* "self.index.add(question_embedding)"
thread_add(t) ==
    /\ ThreadStep(t, "add", "metadata")
    /\ index' = IndexAdd(index, generate_embedding(threads[t].question))
    /\ UNCHANGED <<metadata, disk, faulty, lastOp, checkVars, dimension, bulk>>

\* "self.metadata["faqs"][str(idx)] = {...}"
thread_metadata(t) ==
    /\ ThreadStep(t, "metadata", "save")
    /\ metadata' = [metadata EXCEPT
                      !.faqs = DictSet(@, PyStr(threads[t].idx), ThreadFaq(t))]
    /\ UNCHANGED <<index, disk, faulty, lastOp, checkVars, dimension, bulk>>

\* "self.save_index(); return idx", and the 201 response of the handler.
thread_save(t) ==
    /\ ThreadStep(t, "save", "done")
    /\ \E outcome \in SaveOutcomes :
         /\ metadata' = Stamp(metadata)
         /\ disk' = DiskAfterSave(index, metadata, outcome)
         /\ faulty' = FaultsAfterSave(outcome)
    /\ lastOp' = [op |-> "create_faq", id |-> threads[t].faq_id,
                  question |-> threads[t].question, answer |-> threads[t].answer,
                  status |-> 201, idx |-> threads[t].idx,
                  found |-> threads[t].existing_idx]
    /\ UNCHANGED <<index, checkVars, dimension, bulk>>

\* ------------------------------------------------------------------ specs
\* No handler is inside add_or_update_faq and no bulk import was asked for.
NoTasks ==
    /\ threads = [t \in Threads |-> [pc |-> "idle"]]
    /\ bulk = [pc |-> "idle"]

\* No consistency check has been asked for.
NoCheck ==
    /\ pc = "idle"
    /\ result = [status |-> "none"]
    /\ postgres_faqs = <<>>
    /\ cursor = 1
    /\ to_delete = {}

\* EmbeddingModel() with no index file: load_index builds an empty index and
\* saves it.
Init ==
    /\ index = <<>>
    /\ metadata = EmptyMetadata(Now)
    /\ disk = [index |-> <<>>, metadata |-> EmptyMetadata(Now)]
    /\ faulty = 0
    /\ dimension = EMBEDDING_DIM
    /\ lastOp = [op |-> "init"]
    /\ NoCheck
    /\ NoTasks

\* The calls an earlier run of the service may have served before it saved
\* the files this run loads: at most MaxHistory of them.
HistoryOps ==
    [kind : {"add"}, id : Ids, faq : FAQContents] \union [kind : {"delete"}, id : Ids]
Histories == UNION {[1..len -> HistoryOps] : len \in 0..MaxHistory}
ApplyOp(st, call) ==
    IF call.kind = "add"
    THEN [index |-> AddIndex(st.index, st.faqs, call.id, call.faq.question),
          faqs |-> AddFaqs(st.index, st.faqs, call.id, call.faq.question,
                           call.faq.answer)]
    ELSE IF FindIdx(st.faqs, call.id) = NoIdx THEN st
         ELSE [index |-> remove_ids(st.index, FindIdx(st.faqs, call.id)),
               faqs |-> Renumber(st.faqs, FindIdx(st.faqs, call.id))]
RECURSIVE Replay(_)
Replay(h) ==
    IF h = <<>> THEN [index |-> <<>>, faqs |-> <<>>]
    ELSE ApplyOp(Replay(SubSeq(h, 1, Len(h) - 1)), h[Len(h)])

\* The state after the calls h, made one after the other from the state st.
RECURSIVE ReplayFrom(_, _)
ReplayFrom(st, h) ==
    IF h = <<>> THEN st
    ELSE ApplyOp(ReplayFrom(st, SubSeq(h, 1, Len(h) - 1)), h[Len(h)])

\* EmbeddingModel() with the files of an earlier run: load_index reads the
\* index and the metadata that run saved last.
InitLoaded ==
    \E h \in Histories :
        /\ index = Replay(h).index
        /\ metadata = [EmptyMetadata(Now) EXCEPT !.faqs = Replay(h).faqs]
        /\ disk = [index |-> index, metadata |-> metadata]
        /\ faulty = 0
        /\ dimension = EMBEDDING_DIM
        /\ lastOp = [op |-> "init"]
        /\ NoCheck
        /\ NoTasks

NextCrud == create_faq \/ update_faq \/ delete_faq_endpoint

SpecCrud == Init /\ [][NextCrud]_vars

NextQuery == query

SpecQuery == InitLoaded /\ [][NextQuery]_vars

\* The consistency check with no other writer of the index.
NextCheck ==
    \/ check_and_reindex
    \/ perform_check_fetch
    \/ perform_check_add
    \/ perform_check_delete
    \/ get_consistency_status

SpecCheck == InitLoaded /\ [][NextCheck]_vars

\* create, update and delete with the reset of the index.
NextReset == NextCrud \/ reset_faiss_index

SpecReset == Init /\ [][NextReset]_vars

\* EmbeddingModel() with no index file, on a data directory whose writes
\* can fail.
InitFaulty ==
    /\ index = <<>>
    /\ metadata = EmptyMetadata(Now)
    /\ disk = [index |-> <<>>, metadata |-> EmptyMetadata(Now)]
    /\ faulty = MaxFaults
    /\ dimension = EMBEDDING_DIM
    /\ lastOp = [op |-> "init"]
    /\ NoCheck
    /\ NoTasks

SpecFaulty == InitFaulty /\ [][NextReset]_vars

\* A bulk import into the index of an earlier run, with no other writer.
NextBulk == bulk_index \/ process_bulk_indexing

SpecBulk == InitLoaded /\ [][NextBulk]_vars

\* create, update, delete and reset on an index that is backed up.
NextBackup == NextReset \/ backup_faiss_data

SpecBackup == Init /\ [][NextBackup]_vars

\* The requests that read the index of an earlier run.
NextRead == get_faiss_stats \/ list_faiss_items

SpecRead == InitLoaded /\ [][NextRead]_vars

\* Two create_faq requests in two threads, and query requests between
\* their statements.
NextConc ==
    \/ \E t \in Threads :
         \/ thread_call(t)
         \/ thread_lookup(t)
         \/ thread_remove(t)
         \/ thread_ntotal(t)
         \/ thread_add(t)
         \/ thread_metadata(t)
         \/ thread_save(t)
    \/ query

SpecConc == Init /\ [][NextConc]_vars

\* ------------------------------------------------------ reading the state
\* The record map: positions, the record at a position, where an id sits.
Positions(faqs) == {PyInt(k) : k \in DictKeys(faqs)}
RecordAt(faqs, p) == DictGet(faqs, PyStr(p))
PositionsOf(faqs, id) == {p \in Positions(faqs) : RecordAt(faqs, p).id = id}
IndexedIds(faqs) == {faqs[i][2].id : i \in 1..Len(faqs)}
\* Where position q is after the removal of position p.
ShiftDown(q, p) == IF q > p THEN q - 1 ELSE q

\* ----------------------------------------------------------------- claims
\* C1: in every state reachable by create/update/delete calls the record
\* map is a bijection between the positions 0..N-1 and the domain ids (one
\* record per position, no id at two positions) and the index holds N vectors.
C1_Bijection ==
    LET faqs == metadata.faqs
        N == Len(faqs)
    IN  /\ Cardinality(DictKeys(faqs)) = N
        /\ Positions(faqs) = 0..(N - 1)
        /\ \A id \in Ids : Cardinality(PositionsOf(faqs, id)) <= 1
        /\ ntotal(index) = N

\* The part of C1 the code does keep: the positions are the dense range
\* 0..N-1 in ascending iteration order and the index holds N vectors.
DensePositions ==
    /\ \A i \in 1..Len(metadata.faqs) : metadata.faqs[i][1] = PyStr(i - 1)
    /\ ntotal(index) = Len(metadata.faqs)

\* C2: a CreateOrUpdate of an id that occupies position p of N records
\* leaves every other id indexed, at its old position below p and one lower
\* above p, and the id alone at the top position N-1 with the new texts.
C2_UpdateRenumbers ==
    [][(/\ IsAddCall(lastOp')
        /\ lastOp'.found # NoIdx)
       => LET id == lastOp'.id
              p == lastOp'.found
              N == ntotal(index)
          IN  /\ \A other \in Ids \ {id} :
                   PositionsOf(metadata'.faqs, other)
                     = {ShiftDown(q, p) : q \in PositionsOf(metadata.faqs, other)}
              /\ PositionsOf(metadata'.faqs, id) = {N - 1}
              /\ RecordAt(metadata'.faqs, N - 1)
                   = [id |-> id, question |-> lastOp'.question,
                      answer |-> lastOp'.answer]]_vars

\* C3: a Delete of an id indexed at position p returns true, lowers the
\* cardinality by exactly one, removes the record at p, leaves the records
\* below p where they were and moves the records above p down by one, in
\* the same relative order.
C3_DeleteRenumbers ==
    [][(/\ lastOp'.op = "delete_faq"
        /\ lastOp'.id \in IndexedIds(metadata.faqs))
       => \E p \in PositionsOf(metadata.faqs, lastOp'.id) :
            /\ lastOp'.success = TRUE
            /\ lastOp'.status = 200
            /\ ntotal(index') = ntotal(index) - 1
            /\ index' = remove_ids(index, p)
            /\ Positions(metadata'.faqs) = 0..(Len(metadata.faqs) - 2)
            /\ Len(metadata'.faqs) = Len(metadata.faqs) - 1
            /\ \A q \in Positions(metadata.faqs) \ {p} :
                 RecordAt(metadata'.faqs, ShiftDown(q, p)) = RecordAt(metadata.faqs, q)
            /\ PositionsOf(metadata'.faqs, lastOp'.id)
                 = {ShiftDown(q, p) : q \in PositionsOf(metadata.faqs, lastOp'.id) \ {p}}]_vars

\* C3 witness: the middle one of three records was deleted, so one record
\* stayed and one moved down.
C3_Witness ==
    /\ lastOp.op = "delete_faq"
    /\ lastOp.success = TRUE
    /\ lastOp.n = 3
    /\ lastOp.found = 1
    /\ Len(metadata.faqs) = 2

\* C4: the second of two CreateOrUpdate calls in a row with the same
\* arguments leaves the cardinality what the first call left it.
C4_RepeatKeepsCardinality ==
    [][(IsAddCall(lastOp') /\ lastOp'.repeat) => ntotal(index') = ntotal(index)]_vars

\* C4 witness: a repeated call whose id was found below the top position.
C4_Witness ==
    /\ IsAddCall(lastOp)
    /\ lastOp.repeat
    /\ lastOp.found # NoIdx
    /\ lastOp.found < lastOp.n - 1

\* C5: a Delete of an id that is not in the record map returns false (404)
\* and changes neither the index, the record map nor the saved files.
C5_DeleteUnknown ==
    [][(/\ lastOp'.op = "delete_faq"
        /\ lastOp'.id \notin IndexedIds(metadata.faqs))
       => /\ lastOp'.success = FALSE
          /\ lastOp'.status = 404
          /\ UNCHANGED <<index, metadata, disk>>]_vars

\* C5 witness: a Delete answered 404 on a non-empty index.
C5_Witness ==
    /\ lastOp.op = "delete_faq"
    /\ lastOp.status = 404
    /\ lastOp.n > 0
    /\ ntotal(index) = lastOp.n

\* C6: Query keeps exactly the candidates of the search whose similarity is
\* at least the threshold, in search order; it answers (question, answer and
\* similarity of the first kept candidate) if and only if that candidate's
\* similarity is strictly above the high-confidence threshold, and otherwise
\* lists every kept candidate as (id, question, similarity), without answer.
C6_QueryClassifies ==
    (lastOp.op = "query" /\ lastOp.status = 200) =>
        LET res == lastOp.results
            keep == {i \in 1..Len(res) : res[i].similarity >= lastOp.threshold}
            first == CHOOSE i \in keep : \A j \in keep : i <= j
            nth(j) == CHOOSE i \in keep : Cardinality({x \in keep : x <= i}) = j
            body == lastOp.body
            answered == "best_match" \in DOMAIN body
        IN  /\ answered <=> (/\ keep # {}
                             /\ res[first].similarity > HIGH_CONFIDENCE_THRESHOLD)
            /\ answered =>
                 /\ "alternatives" \notin DOMAIN body
                 /\ body.best_match = [question |-> res[first].question,
                                       answer |-> res[first].answer,
                                       similarity |-> res[first].similarity]
            /\ ~answered =>
                 /\ Len(body.alternatives) = Cardinality(keep)
                 /\ \A j \in 1..Len(body.alternatives) :
                      body.alternatives[j] = [id |-> res[nth(j)].id,
                                              question |-> res[nth(j)].question,
                                              similarity |-> res[nth(j)].similarity]

\* C6 witness: with threshold 0.6 the first candidate is at exactly 0.8 and
\* is listed as an alternative, and a candidate at exactly 0.6 is kept.
C6_Witness ==
    /\ lastOp.op = "query"
    /\ lastOp.status = 200
    /\ lastOp.threshold = 60
    /\ "alternatives" \in DOMAIN lastOp.body
    /\ Len(lastOp.body.alternatives) = 2
    /\ lastOp.body.alternatives[1].similarity = 80
    /\ lastOp.body.alternatives[2].similarity = 60

\* C7: a Query never raises; on an index of cardinality 0 it returns an
\* empty list of alternatives and no answer; the search joins one record for
\* each of the min(N, top_k) real labels and none for a sentinel.
C7_QueryShortIndex ==
    lastOp.op = "query" =>
        /\ lastOp.status = 200
        /\ Len(lastOp.results)
             = (IF lastOp.n < lastOp.top_k THEN lastOp.n ELSE lastOp.top_k)
        /\ Len(lastOp.results)
             = Cardinality({i \in 1..lastOp.top_k : lastOp.labels[i] # NoLabel})
        /\ lastOp.n = 0 =>
             /\ "best_match" \notin DOMAIN lastOp.body
             /\ lastOp.body.alternatives = <<>>

\* C7 witness: a Query on an index of cardinality 0, every slot a sentinel.
C7_Witness ==
    /\ lastOp.op = "query"
    /\ lastOp.n = 0
    /\ ntotal(index) = 0
    /\ \A i \in 1..lastOp.top_k : lastOp.labels[i] = NoLabel

\* C8: when a consistency check that got the authoritative records has
\* finished, with no other writer, the ids in the record map are exactly the
\* authoritative ids: a second check of that state finds nothing missing and
\* nothing orphaned.
C8_CheckReconciles ==
    (pc = "done" /\ result.status \in {"consistent", "reindexed"}) =>
        IndexedIds(metadata.faqs) = SeqIds(postgres_faqs)

\* C9: after a consistency check has finished, the status query returns the
\* report of that check, and not never_run.
C9_StatusReportsCheck ==
    pc = "done" =>
        /\ ConsistencyStatus(metadata) # [status |-> "never_run"]
        /\ ConsistencyStatus(metadata).result = result

\* C10: a consistency check never finishes with its status still "checking":
\* it ends consistent, reindexed or error, and a fetch that fails ends in
\* error with a message.
C10_CheckEndsTerminal ==
    pc = "done" =>
        /\ result.status \in {"consistent", "reindexed", "error"}
        /\ result.status = "error" => "error" \in DOMAIN result

\* C11: a consistency check whose fetch fails (httpx raises, or the answer
\* is not 200) changes nothing: neither the request that starts the check
\* nor the step that ends it on the failed fetch touches the index, the
\* record map or the files.
C11_FailedFetchNoMutation ==
    [][(pc' = "fetch" \/ (pc = "fetch" /\ pc' = "done"))
          => UNCHANGED <<index, metadata, disk>>]_vars
\* A check over a non-empty index has ended on a failed fetch.
C11_Witness ==
    /\ pc = "done"
    /\ result.status \in {"checking", "error"}
    /\ ntotal(index) > 0

\* C19: a consistency check that got its records computes, from the record
\* map as it is when the check reads it, missing = authoritative ids minus
\* indexed ids and orphaned = indexed ids minus authoritative ids, reports
\* faqs_total = the number of authoritative records, keeps the three while
\* it adds and deletes, and ends "reindexed" exactly when missing or
\* orphaned is not empty and "consistent" otherwise.
C19_CheckReport ==
    [][/\ (pc = "fetch" /\ pc' = "add") =>
             /\ result'.missing_in_faiss
                   = SeqIds(postgres_faqs') \ IndexedIds(metadata.faqs)
             /\ result'.orphaned_in_faiss
                   = IndexedIds(metadata.faqs) \ SeqIds(postgres_faqs')
             /\ result'.faqs_total = Len(postgres_faqs')
       /\ pc \in {"add", "delete"} =>
             /\ result'.missing_in_faiss = result.missing_in_faiss
             /\ result'.orphaned_in_faiss = result.orphaned_in_faiss
             /\ result'.faqs_total = result.faqs_total
             /\ postgres_faqs' = postgres_faqs
       /\ (pc = "delete" /\ pc' = "done") =>
             /\ result'.status \in {"reindexed", "consistent"}
             /\ result'.status = "reindexed" <=>
                   (result.missing_in_faiss # {} \/ result.orphaned_in_faiss # {})]_vars
\* A check that found nothing missing and an orphan has ended.
C19_Witness ==
    /\ pc = "done"
    /\ result.status = "reindexed"
    /\ result.missing_in_faiss = {}
    /\ result.orphaned_in_faiss # {}
    /\ result.faqs_total >= 1

\* C20: a bulk import applies its records one at a time in list order: at
\* every moment of the task, at its end (every record applied, a repeated
\* id included) and after a record has failed (the task stops at record k),
\* the index and the record map are those of add_or_update_faq called for
\* the records before the one the loop is at, in list order, from the state
\* the task started in; nothing is rolled back.
C20_BulkInOrder ==
    bulk.pc \in {"run", "done", "failed"} =>
        LET applied == [i \in 1..(bulk.k - 1) |->
                          [kind |-> "add", id |-> bulk.items[i].id,
                           faq |-> bulk.items[i].faq]]
            expected == ReplayFrom(bulk.start, applied)
        IN  /\ bulk.pc = "done" => bulk.k = Len(bulk.items) + 1
            /\ index = expected.index
            /\ metadata.faqs = expected.faqs
\* The second of two records with different ids has failed and the first
\* stays applied.
C20_Witness ==
    /\ bulk.pc = "failed"
    /\ Len(bulk.items) = 2
    /\ bulk.k = 2
    /\ bulk.items[1].id # bulk.items[2].id
    /\ bulk.items[1].id \in IndexedIds(metadata.faqs)
    /\ bulk.items[1].id \notin IndexedIds(bulk.start.faqs)

\* C12: concurrent mutations are atomic: when two create_faq requests served
\* at the same time have both returned, the index and the record map are
\* those of the two calls made one after the other, in one of the two
\* orders (for two distinct new ids: both indexed, at two positions, as
\* many records as vectors).
C12_Serializable ==
    (\A t \in Threads : threads[t].pc = "done") =>
        \E order \in [1..Cardinality(Threads) -> Threads] :
            /\ \A i, j \in DOMAIN order : order[i] = order[j] => i = j
            /\ LET calls == [i \in DOMAIN order |->
                               [kind |-> "add", id |-> threads[order[i]].faq_id,
                                faq |-> [question |-> threads[order[i]].question,
                                         answer |-> threads[order[i]].answer]]]
               IN  /\ index = Replay(calls).index
                   /\ metadata.faqs = Replay(calls).faqs

\* C13: a query served while create_faq requests are running never fails on
\* a position without a record: every position the vector search returned
\* has its key in the record map when search joins it, so the query is
\* answered 200.
C13_ReadJoinsEveryPosition ==
    lastOp.op = "query" =>
        /\ \A i \in 1..Len(Joined(lastOp.labels)) :
              DictHas(metadata.faqs, PyStr(Joined(lastOp.labels)[i]))
        /\ lastOp.status = 200

\* C14: the statistics request answers for every record map, one with an
\* id at several positions included: unique_faq_ids is the number of
\* distinct ids, duplicates holds exactly the ids that sit at more than one
\* position, each once and with the number of its positions, has_duplicates
\* says whether there is any, and total_vectors is the cardinality.
C14_StatsCounts ==
    lastOp.op = "stats" =>
        LET body == lastOp.body
            faqs == metadata.faqs
            twice == {id \in IndexedIds(faqs) :
                        Cardinality(PositionsOf(faqs, id)) > 1}
        IN  /\ lastOp.status = 200
            /\ body.unique_faq_ids = Cardinality(IndexedIds(faqs))
            /\ DictKeys(body.duplicates) = twice
            /\ Len(body.duplicates) = Cardinality(twice)
            /\ \A id \in twice : DictGet(body.duplicates, id)
                                     = Cardinality(PositionsOf(faqs, id))
            /\ body.has_duplicates = (twice # {})
            /\ body.total_vectors = ntotal(index)
\* Statistics were asked of a record map with an id at two positions.
C14_Witness ==
    /\ lastOp.op = "stats"
    /\ lastOp.body.has_duplicates
    /\ \E id \in Ids : Cardinality(PositionsOf(metadata.faqs, id)) = 2

\* C15: a reset leaves an index of cardinality 0 and of the dimension it
\* had, and an empty record map, whatever the state before; a create or
\* update served right after a reset puts its record at position 0.
C15_ResetEmpties ==
    [][/\ lastOp'.op = "reset" =>
             /\ ntotal(index') = 0
             /\ dimension' = dimension
             /\ metadata'.faqs = <<>>
             /\ lastOp'.status = 204
       /\ (lastOp.op = "reset" /\ IsAddCall(lastOp')) =>
             /\ lastOp'.idx = 0
             /\ ntotal(index') = 1
             /\ Positions(metadata'.faqs) = {0}
             /\ RecordAt(metadata'.faqs, 0).id = lastOp'.id]_vars
\* A reset of an index that held vectors.
C15_Witness ==
    /\ lastOp.op = "reset"
    /\ lastOp.n >= 2
    /\ ntotal(index) = 0

\* C17: after a create, update, delete or reset whose save succeeded, the
\* two files are a matching pair: load_index gives an index of the same
\* cardinality (the same vectors) and a record map with the same record,
\* hence the same id, at every position as the running service has.
C17_SavedPairLoads ==
    [][(/\ \/ IsAddCall(lastOp')
           \/ lastOp'.op = "reset"
           \/ (lastOp'.op = "delete_faq" /\ lastOp'.success)
        /\ faulty' = faulty)
          => LET loaded == load_index(disk')
             IN  /\ ntotal(loaded.index) = ntotal(index')
                 /\ loaded.index = index'
                 /\ loaded.metadata.faqs = metadata'.faqs]_vars
\* A save has failed earlier in the run and a later create or update has
\* saved a pair that loads as the state in memory.
C17_Witness ==
    /\ IsAddCall(lastOp)
    /\ faulty < MaxFaults
    /\ ntotal(index) > MaxNFaulty
    /\ load_index(disk).index = index
    /\ load_index(disk).metadata.faqs = metadata.faqs

\* C18: a create, update, delete or reset whose save fails reports the
\* failure to its caller (a 5xx response).
C18_SaveFailureReported ==
    [][faulty' < faulty => lastOp'.status >= 500]_vars

\* C16: the list request returns the records in strictly ascending position
\* order, those whose positions have ranks skip .. skip+limit-1 among the
\* sorted positions (fewer when the map is shorter, none when skip is not
\* below its size), each with its position and the id stored there.
C16_ListPaginates ==
    lastOp.op = "list" =>
        LET items == lastOp.body
            faqs == metadata.faqs
            rank(p) == Cardinality({q \in Positions(faqs) : q < p})
            rest == Cardinality(Positions(faqs)) - lastOp.skip
        IN  /\ Len(items) = IF rest <= 0 THEN 0
                            ELSE IF rest < lastOp.limit THEN rest
                            ELSE lastOp.limit
            /\ \A i \in 1..Len(items) :
                  /\ items[i].index \in Positions(faqs)
                  /\ rank(items[i].index) = lastOp.skip + i - 1
                  /\ items[i].id = RecordAt(faqs, items[i].index).id
            /\ \A i, j \in 1..Len(items) :
                  i < j => items[i].index < items[j].index
\* A page that starts after the first record and is cut short by the end.
C16_Witness ==
    /\ lastOp.op = "list"
    /\ lastOp.skip = 2
    /\ lastOp.limit = 2
    /\ Len(lastOp.body) = 1
    /\ lastOp.body[1].index = 2

\* C21: in every state reachable by create/update/delete calls the vector
\* stored at each position is the embedding of the question of the record
\* the record map holds at that position, so a search hit is joined to the
\* record whose question gave the vector.
C21_VectorMatchesRecord ==
    /\ Positions(metadata.faqs) = 0..(ntotal(index) - 1)
    /\ \A p \in Positions(metadata.faqs) :
          index[p + 1] = generate_embedding(RecordAt(metadata.faqs, p).question)

\* C22: once a delete of an id has returned true the id is at no position
\* of the record map (so a second delete returns false and no query or
\* list result carries the id).
C22_DeletedIdGone ==
    (lastOp.op = "delete_faq" /\ lastOp.success) =>
        /\ PositionsOf(metadata.faqs, lastOp.id) = {}
        /\ FindIdx(metadata.faqs, lastOp.id) = NoIdx

\* C23: a create, update, delete or reset changes only the index, the
\* record map and the last-updated time: the stored consistency report and
\* the list of backups in the metadata are as before the call, and the
\* status query answers the same.
C23_KeepsReportAndBackups ==
    [][(\/ IsAddCall(lastOp')
        \/ lastOp'.op \in {"delete_faq", "reset"})
          => /\ metadata'.consistency_check = metadata.consistency_check
             /\ metadata'.backups = metadata.backups
             /\ ConsistencyStatus(metadata') = ConsistencyStatus(metadata)]_vars

====
